---- MODULE Spec2Model ----
(***************************************************************************)
(* Variant Lens (akshaycr9/variant-image).                                 *)
(*                                                                         *)
(* Three parts of the repository are modelled, each under its own          *)
(* specification:                                                          *)
(*   SpecSettings  normalizeSettings        (variant-images.server.js)     *)
(*   SpecMapping   normalizeProductMapping  (variant-images.server.js)     *)
(*   Spec          the storefront runtime   (variant-images.js)            *)
(***************************************************************************)
EXTENDS Naturals, Integers, Sequences, FiniteSets, TLC

VARIABLES
    rawSettings,     \* argument of normalizeSettings
    settingsResult,  \* what the call produced
    product,         \* catalog snapshot: options, variants, images
    rawValue,        \* persisted product metafield value
    mappingResult,   \* what normalizeProductMapping produced
    pass,            \* number of normalizeProductMapping calls made
    config,          \* storefront bootstrap payload
    items,           \* storefront DOM: gallery and thumbnail elements
    lastVariantId,   \* storefront: last handled variant ID
    filteredFor,     \* storefront: argument of the latest filterGallery call
    clicked,         \* storefront: element activated by the latest call
    booted,          \* storefront: init() has run
    uncaught,        \* storefront: callers a TypeError escaped from
    initialized,     \* storefront: window.__variantImagesFilterInitialized
    initScheduled,   \* storefront: init is waiting to be called
    settings,            \* editor: shop settings given to the page
    selectedOptionName,  \* editor: axis being mapped
    mapping,             \* editor: option value -> image IDs
    activeOptionValue,   \* editor: value whose images are being picked
    fetcherData,         \* editor: response of the latest submission
    written,             \* latest write of the product metafield
    steps,               \* editor and block: edits and submissions so far
    extensionMapping,    \* product-page block: its mapping state
    selectedVariantNumId, \* product-page block: variant being edited
    catalog,         \* identity: file stems of the catalog images
    displayed,       \* identity: the URL an element shows
    resolution       \* identity: its base filename and resolved image ID

settingsVars == <<rawSettings, settingsResult>>
mappingVars == <<product, rawValue, mappingResult, pass>>
storeVars ==
    <<config, items, lastVariantId, filteredFor, clicked, booted, uncaught,
      initialized, initScheduled>>
extensionVars == <<extensionMapping, selectedVariantNumId>>
editorVars ==
    <<settings, selectedOptionName, mapping, activeOptionValue, fetcherData,
      written, steps, extensionVars>>
identityVars == <<catalog, displayed, resolution>>
vars == <<settingsVars, mappingVars, storeVars, editorVars, identityVars>>

(***************************************************************************)
(* JavaScript strings.  A string is a text followed by a run of digits;    *)
(* num = 0 stands for "no digits".  The empty string is Str("").           *)
(***************************************************************************)
Str(t) == [text |-> t, num |-> 0]
NumStr(n) == [text |-> "", num |-> n]
EmptyStr == Str("")
Truthy(s) == s # EmptyStr

ImageGid(n) == [text |-> "gid://shopify/ProductImage/", num |-> n]
VariantGid(n) == [text |-> "gid://shopify/ProductVariant/", num |-> n]

\* app/utils/ids: numeric suffix extraction ("" when there is none).
toNumericId(s) == NumStr(s.num)

(***************************************************************************)
(* Sequence helpers standing for Array.prototype methods.                  *)
(***************************************************************************)
RECURSIVE SeqFilter(_, _)
SeqFilter(s, keep) ==
    IF s = <<>> THEN <<>>
    ELSE IF Head(s) \in keep THEN <<Head(s)>> \o SeqFilter(Tail(s), keep)
    ELSE SeqFilter(Tail(s), keep)

Range(s) == {s[i] : i \in 1..Len(s)}

\* [...new Set(s)]: first occurrences, in order.
RECURSIVE Dedupe(_)
Dedupe(s) ==
    IF s = <<>> THEN <<>>
    ELSE LET front == Dedupe(SubSeq(s, 1, Len(s) - 1))
             last == s[Len(s)]
         IN IF last \in Range(front) THEN front ELSE Append(front, last)

MapSeq(s, Op(_)) == [i \in 1..Len(s) |-> Op(s[i])]

(***************************************************************************)
(* Settings normalizer                                                     *)
(***************************************************************************)
\* A JavaScript value as far as `typeof v === "boolean"` can tell.
JsBool(b) == [t |-> "boolean", b |-> b]
JsOther(t) == [t |-> t, b |-> FALSE]
JsUndefined == JsOther("undefined")
FieldValues ==
    {JsBool(TRUE), JsBool(FALSE), JsUndefined, JsOther("string"),
     JsOther("number"), JsOther("null")}

\* The value a settings input denotes once parsed.
SettingsObject(e, a, h) ==
    [type |-> "object", enabled |-> e, allowSharedImages |-> a,
     hideUnassignedImages |-> h]
NonObject(t) ==
    [type |-> t, enabled |-> JsUndefined, allowSharedImages |-> JsUndefined,
     hideUnassignedImages |-> JsUndefined]
EmptyObject == SettingsObject(JsUndefined, JsUndefined, JsUndefined)
SettingsObjects ==
    {SettingsObject(e, a, h) : e \in FieldValues, a \in FieldValues,
                               h \in FieldValues}

\* form: "nullish" (null/undefined), "empty" (""), "object" (already an
\* object), "json" (a string JSON.parse accepts; value is what it yields),
\* "text" (a string JSON.parse rejects).
RawInput(form, value) == [form |-> form, value |-> value]
RawSettingsInputs ==
    {RawInput("nullish", EmptyObject), RawInput("empty", EmptyObject),
     RawInput("text", EmptyObject)}
    \cup {RawInput("object", v) : v \in SettingsObjects \cup {NonObject("array")}}
    \cup {RawInput("json", v) :
            v \in SettingsObjects \cup
                  {NonObject("null"), NonObject("number"), NonObject("string"),
                   NonObject("boolean"), NonObject("array")}}

DEFAULT_SETTINGS ==
    [enabled |-> TRUE, allowSharedImages |-> TRUE, hideUnassignedImages |-> FALSE]

safeParseJson(value, fallback) ==
    IF value.form \in {"nullish", "empty"} THEN fallback
    ELSE IF value.form = "object" THEN value.value
    ELSE IF value.form = "json" THEN value.value
    ELSE fallback

\* status "returned" carries the record in value; "TypeError" is the
\* exception raised by reading a property of null.
Returned(v) == [status |-> "returned", value |-> <<v>>]
Thrown(e) == [status |-> e, value |-> <<>>]
Pending == [status |-> "pending", value |-> <<>>]

\* Mutant: a field that is not a boolean is coerced instead of defaulted.
BoolOrDefault_coerced(v, d) == IF v.t = "boolean" THEN v.b ELSE FALSE

BoolOrDefault(v, d) == IF v.t = "boolean" THEN v.b ELSE d

normalizeSettings(raw) ==
    LET input == safeParseJson(raw, EmptyObject) IN
    IF input.type = "null" THEN Thrown("TypeError")
    ELSE Returned(
        [enabled |-> BoolOrDefault(input.enabled, DEFAULT_SETTINGS.enabled),
         allowSharedImages |->
            BoolOrDefault(input.allowSharedImages, DEFAULT_SETTINGS.allowSharedImages),
         hideUnassignedImages |->
            BoolOrDefault(input.hideUnassignedImages,
                          DEFAULT_SETTINGS.hideUnassignedImages)])

(***************************************************************************)
(* Mapping normalizer: products and persisted values                       *)
(***************************************************************************)
NumImages == 2      \* the catalog holds the images 1..n, n <= NumImages
NumVariants == 3    \* the catalog holds the variants 1..NumVariants
MaxLoads == 2       \* loads of the same product

ColorOption ==
    [name |-> Str("Color"), values |-> <<Str("Black"), Str("Red")>>]
SizeOption ==
    [name |-> Str("Size"), values |-> <<Str("M"), Str("L")>>]
OptionLists == {<<>>, <<ColorOption>>, <<ColorOption, SizeOption>>}

\* Variants 1, 2, 4, 5, ... are Black and 3, 6, ... Red; odd ones M, even L.
VariantValue(k, name) ==
    IF name = Str("Color")
    THEN (IF k % 3 = 0 THEN Str("Red") ELSE Str("Black"))
    ELSE (IF k % 2 = 0 THEN Str("L") ELSE Str("M"))

Variant(k, opts) ==
    [id |-> VariantGid(k),
     selectedOptions |->
        [i \in 1..Len(opts) |->
            [name |-> opts[i].name, value |-> VariantValue(k, opts[i].name)]]]

Products ==
    {[options |-> o,
      variants |-> [k \in 1..NumVariants |-> Variant(k, o)],
      images |-> [i \in 1..n |-> ImageGid(i)]] :
        o \in OptionLists, n \in 0..NumImages}

\* Image lists found under a key: valid, stale (NumImages + 1), composite
\* and garbage identifiers, with repetitions.
ImageTokens ==
    {NumStr(i) : i \in 1..(NumImages + 1)} \cup {ImageGid(1), Str("x")}
ImageLists ==
    {<<>>} \cup {<<a>> : a \in ImageTokens}
    \cup {<<NumStr(1), b>> : b \in ImageTokens}
    \cup {<<ImageGid(1), NumStr(1)>>}

\* The value stored under a key: an array, {imageIds: [...]} or anything else.
ArrayValue(ids) == [shape |-> "array", ids |-> ids]
EntryValues ==
    {ArrayValue(l) : l \in ImageLists}
    \cup {[shape |-> "imageIds", ids |-> <<NumStr(2)>>],
          [shape |-> "other", ids |-> <<>>]}
SimpleValues == {ArrayValue(<<NumStr(i)>>) : i \in 1..NumImages}

OptionKeys == {Str("Black"), Str("Red"), Str("Blue")}
VariantKeys == {NumStr(k) : k \in 1..(NumVariants + 1)} \cup {VariantGid(1)}

\* Objects with at most two keys, as functions from keys to stored values.
TablesOver(keys) ==
    {<<>>}
    \cup {k :> v : k \in keys, v \in EntryValues}
    \cup {(k[1] :> v) @@ (k[2] :> w) :
            k \in {p \in keys \X keys : p[1] # p[2]},
            v \in EntryValues, w \in SimpleValues}

\* A parsed JSON value.  mapping is <<>> when the object has no `mapping`
\* field and <<v>> when it has one; top holds the other keys that carry
\* identifiers.  mode and optionName are EmptyStr when absent.
TableValue(table) == [type |-> "object", top |-> table]
ArrayLiteral == [type |-> "array", top |-> <<>>]
ParsedObject(mode, optionName, mappingField, top) ==
    [type |-> "object", mode |-> mode, optionName |-> optionName,
     mapping |-> mappingField, top |-> top]
ParsedOther(t) ==
    [type |-> t, mode |-> EmptyStr, optionName |-> EmptyStr,
     mapping |-> <<>>, top |-> <<>>]
EmptyParsed == ParsedObject(EmptyStr, EmptyStr, <<>>, <<>>)
\* A JSON string whose own text is the JSON of the object `inner`; a JSON
\* string of any other text is ParsedOther("string").
JsonText(inner) == [inner EXCEPT !.type = "jsonText"]

CurrentShapeValues ==
    {ParsedObject(Str("option"), n, m, <<>>) :
        n \in {EmptyStr, Str("Color"), Str("Size"), Str("Stale")},
        m \in {<<>>, <<ArrayLiteral>>}
              \cup {<<TableValue(t)>> : t \in TablesOver(OptionKeys)}}
LegacyShapeValues ==
    {ParsedObject(EmptyStr, n, <<>>, t) :
        n \in {EmptyStr, Str("Size")}, t \in TablesOver(VariantKeys)}
    \cup {ParsedObject(EmptyStr, n, <<TableValue(t)>>, <<>>) :
        n \in {EmptyStr, Str("Size")}, t \in TablesOver(VariantKeys)}

\* Objects that carry a mapping field and top-level entries at once, in
\* option mode, in another mode and without a mode.
MixedShapeValues ==
    {ParsedObject(m, Str("Color"),
                  <<TableValue(k :> ArrayValue(<<NumStr(1)>>))>>,
                  NumStr(3) :> ArrayValue(<<NumStr(NumImages)>>)) :
        m \in {Str("option"), Str("variant"), EmptyStr},
        k \in {Str("Black"), NumStr(1)}}
    \cup {ParsedObject(m, Str("Size"), <<>>, NumStr(1) :> ArrayValue(<<NumStr(1)>>)) :
        m \in {Str("option"), Str("variant")}}

EncodedTwiceValues ==
    {JsonText(ParsedObject(EmptyStr, EmptyStr, <<>>,
                           NumStr(1) :> ArrayValue(<<NumStr(1)>>))),
     JsonText(ParsedObject(Str("option"), Str("Color"),
                           <<TableValue(Str("Black") :> ArrayValue(<<NumStr(1)>>))>>,
                           <<>>))}

RawValues ==
    {RawInput("nullish", EmptyParsed), RawInput("empty", EmptyParsed),
     RawInput("text", EmptyParsed), RawInput("object", ParsedOther("array"))}
    \cup {RawInput("json", ParsedOther(t)) :
            t \in {"null", "number", "string", "array"}}
    \cup {RawInput("json", v) : v \in EncodedTwiceValues}
    \cup {RawInput("json", v) :
            v \in CurrentShapeValues \cup LegacyShapeValues \cup MixedShapeValues}

(***************************************************************************)
(* Mapping normalizer: the functions                                       *)
(***************************************************************************)
\* Object.entries order: integer keys ascending, then the other keys.
KeyOrder ==
    [i \in 1..(NumVariants + 1) |-> NumStr(i)]
    \o <<VariantGid(1), Str("Black"), Str("Red"), Str("Blue")>>
ObjectKeys(table) == SeqFilter(KeyOrder, DOMAIN table)

EmptyTable == <<>>

\* Lines 76-84 and 110-118: the image list kept for one stored value.
EntryImageIds(value, validImageIds) ==
    LET candidateImages ==
            IF value.shape \in {"array", "imageIds"} THEN value.ids ELSE <<>>
        numeric == MapSeq(candidateImages, toNumericId)
        unique == Dedupe(SeqFilter(numeric, {x \in Range(numeric) : Truthy(x)}))
    IN IF Len(validImageIds) > 0
       THEN SeqFilter(unique, Range(MapSeq(validImageIds, toNumericId)))
       ELSE unique

\* Mutant: the {mapping: {...}} wrapper is not opened.
MappingSource_whole(parsed) == [type |-> parsed.type, top |-> parsed.top]

\* `parsed.mapping ? parsed.mapping : parsed` followed by the shape test.
MappingSource(parsed) ==
    IF parsed.type = "object" /\ parsed.mapping # <<>>
    THEN parsed.mapping[1]
    ELSE [type |-> parsed.type, top |-> parsed.top]

RECURSIVE NormalizeVariantEntries(_, _, _, _, _)
NormalizeVariantEntries(keys, source, validVariantIds, validImageIds, normalized) ==
    IF keys = <<>> THEN normalized
    ELSE
        LET rawVariantId == Head(keys)
            variantId == toNumericId(rawVariantId)
            imageIds == EntryImageIds(source[rawVariantId], validImageIds)
            skip ==
                \/ ~Truthy(variantId)
                \/ /\ Len(validVariantIds) > 0
                   /\ variantId \notin Range(MapSeq(validVariantIds, toNumericId))
                \/ Len(imageIds) = 0
            next ==
                IF skip THEN normalized
                ELSE [k \in DOMAIN normalized \cup {variantId} |->
                        IF k = variantId THEN imageIds ELSE normalized[k]]
        IN NormalizeVariantEntries(Tail(keys), source, validVariantIds,
                                   validImageIds, next)

\* Line 57: safeParseJson applied to a value that is already parsed.  null
\* gives the fallback, an object or array is returned as it is, and any
\* other value goes through JSON.parse, which yields an object only for a
\* string holding the JSON of one and fails on other text.
ParsedAgain(parsed) ==
    IF parsed.type \in {"null", "string"} THEN EmptyParsed
    ELSE IF parsed.type = "jsonText" THEN [parsed EXCEPT !.type = "object"]
    ELSE parsed

normalizeMapping(rawMapping, validVariantIds, validImageIds) ==
    LET parsed == ParsedAgain(rawMapping)
        source == MappingSource(parsed) IN
    IF source.type # "object" THEN EmptyTable
    ELSE NormalizeVariantEntries(ObjectKeys(source.top), source.top,
                                 validVariantIds, validImageIds, EmptyTable)

normalizeOptionMapping(rawMapping, validOptionValues, validImageIds) ==
    IF rawMapping.type # "object" THEN EmptyTable
    ELSE
        LET source == rawMapping.top
            kept ==
                {optionValue \in DOMAIN source :
                    /\ Truthy(optionValue)
                    /\ Len(validOptionValues) > 0
                          => optionValue \in Range(validOptionValues)
                    /\ Len(EntryImageIds(source[optionValue], validImageIds)) > 0}
        IN [optionValue \in kept |->
                EntryImageIds(source[optionValue], validImageIds)]

OptionNamed(optionsList, name) ==
    {i \in 1..Len(optionsList) : optionsList[i].name = name}
FirstIndex(S) == CHOOSE i \in S : \A j \in S : i <= j

\* Mutant: the variant's last selected option is read whatever its name.
OptionValueByVariant_lastOption(variants, optionName, variantId) ==
    LET owners == {i \in 1..Len(variants) : toNumericId(variants[i].id) = variantId}
    IN IF owners = {} THEN EmptyStr
       ELSE LET variant == variants[CHOOSE i \in owners : \A j \in owners : j <= i]
            IN IF variant.selectedOptions = <<>> THEN EmptyStr
               ELSE variant.selectedOptions[Len(variant.selectedOptions)].value

\* Lines 157-161: the selected value of optionName for a numeric variant ID,
\* EmptyStr when the variant or the option is not found.
OptionValueByVariant(variants, optionName, variantId) ==
    LET owners == {i \in 1..Len(variants) : toNumericId(variants[i].id) = variantId}
    IN IF owners = {} THEN EmptyStr
       ELSE LET variant == variants[CHOOSE i \in owners : \A j \in owners : j <= i]
                selected == OptionNamed(variant.selectedOptions, optionName)
            IN IF selected = {} THEN EmptyStr
               ELSE variant.selectedOptions[FirstIndex(selected)].value

RECURSIVE MigrateEntries(_, _, _, _, _)
MigrateEntries(keys, legacyVariantMap, variants, optionName, optionMap) ==
    IF keys = <<>> THEN optionMap
    ELSE
        LET variantId == Head(keys)
            optionValue == OptionValueByVariant(variants, optionName, variantId)
            before == IF optionValue \in DOMAIN optionMap
                      THEN optionMap[optionValue] ELSE <<>>
            next ==
                IF ~Truthy(optionValue) THEN optionMap
                ELSE [k \in DOMAIN optionMap \cup {optionValue} |->
                        IF k = optionValue
                        THEN Dedupe(before \o legacyVariantMap[variantId])
                        ELSE optionMap[k]]
        IN MigrateEntries(Tail(keys), legacyVariantMap, variants, optionName, next)

\* Line 131.
FallbackOptionName(optionsList) ==
    IF Len(optionsList) > 0 THEN optionsList[1].name ELSE Str("Option")

\* Mutant: the persisted option name is taken without validation.
ResolveOptionName_unchecked(parsed, optionsList) ==
    IF Truthy(parsed.optionName)
    THEN parsed.optionName ELSE FallbackOptionName(optionsList)

\* Lines 136-138.
ResolveOptionName(parsed, optionsList) ==
    IF OptionNamed(optionsList, parsed.optionName) # {}
    THEN parsed.optionName ELSE FallbackOptionName(optionsList)

\* Mutant: the mode is read without the `parsed &&` guard.
HasOptionMode_unguarded(parsed) ==
    IF parsed.type = "null" THEN "TypeError"
    ELSE IF parsed.type \in {"object", "array"} /\ parsed.mode = Str("option")
    THEN "yes" ELSE "no"

\* Line 135: parsed && typeof parsed === "object" && parsed.mode === "option".
HasOptionMode(parsed) ==
    IF parsed.type \in {"object", "array"} /\ parsed.mode = Str("option")
    THEN "yes" ELSE "no"

normalizeProductMapping(raw, productOptions, variants, imageIds) ==
    LET parsed == safeParseJson(raw, EmptyParsed)
        optionsList == productOptions
        fallbackOptionName == FallbackOptionName(optionsList)
    IN
    IF HasOptionMode(parsed) = "yes"
    THEN
        LET optionName == ResolveOptionName(parsed, optionsList)
            found == OptionNamed(optionsList, optionName)
            optionValues ==
                IF found = {} THEN <<>> ELSE optionsList[FirstIndex(found)].values
            rawMapping ==
                IF parsed.mapping = <<>> THEN TableValue(EmptyTable)
                ELSE parsed.mapping[1]
        IN [mode |-> "option", optionName |-> optionName,
            mapping |-> normalizeOptionMapping(rawMapping, optionValues, imageIds)]
    ELSE
        LET legacyVariantMap ==
                normalizeMapping(parsed,
                                 MapSeq(variants, LAMBDA v : v.id), imageIds)
            optionName == fallbackOptionName
        IN [mode |-> "option", optionName |-> optionName,
            mapping |-> MigrateEntries(ObjectKeys(legacyVariantMap),
                                       legacyVariantMap, variants, optionName,
                                       EmptyTable)]

\* A call of normalizeProductMapping: the record it returns, or the
\* exception raised by reading a property of null.
CallNormalizeProductMapping(raw, productOptions, variants, imageIds) ==
    IF HasOptionMode(safeParseJson(raw, EmptyParsed)) = "TypeError"
    THEN Thrown("TypeError")
    ELSE Returned(normalizeProductMapping(raw, productOptions, variants, imageIds))

\* JSON.stringify of a canonical value, as it is read back.
Stringify(canonical) ==
    RawInput("json",
        ParsedObject(Str(canonical.mode), canonical.optionName,
            <<TableValue([k \in DOMAIN canonical.mapping |->
                            ArrayValue(canonical.mapping[k])])>>,
            <<>>))

(***************************************************************************)
(* Specifications of the two normalizers                                   *)
(***************************************************************************)
Idle == [status |-> "idle", value |-> <<>>]
SettingsIdle == rawSettings = Idle /\ settingsResult = Idle
MappingIdle ==
    product = Idle /\ rawValue = Idle /\ mappingResult = Idle /\ pass = 0
StoreIdle ==
    /\ config = Idle /\ items = <<>> /\ lastVariantId = EmptyStr
    /\ filteredFor = EmptyStr /\ clicked = 0 /\ booted = FALSE
    /\ uncaught = {}
    /\ initialized = FALSE /\ initScheduled = FALSE
IdentityIdle == catalog = <<>> /\ displayed = Idle /\ resolution = Idle
EditorIdle ==
    /\ settings = Idle /\ selectedOptionName = EmptyStr /\ mapping = <<>>
    /\ activeOptionValue = EmptyStr /\ fetcherData = Idle /\ written = Idle
    /\ steps = 0
    /\ extensionMapping = Idle /\ selectedVariantNumId = EmptyStr

InitSettings ==
    /\ rawSettings \in RawSettingsInputs
    /\ settingsResult = Pending
    /\ MappingIdle /\ StoreIdle /\ EditorIdle /\ IdentityIdle

\* getShopSettings / saveShopSettings: one call of normalizeSettings.
NormalizeSettingsCall ==
    /\ settingsResult = Pending
    /\ settingsResult' = normalizeSettings(rawSettings)
    /\ UNCHANGED <<rawSettings, mappingVars, storeVars, editorVars, identityVars>>

NextSettings == NormalizeSettingsCall
SpecSettings == InitSettings /\ [][NextSettings]_vars

InitMapping ==
    /\ product \in Products
    /\ rawValue \in RawValues
    /\ mappingResult = Pending
    /\ pass = 0
    /\ SettingsIdle /\ StoreIdle /\ EditorIdle /\ IdentityIdle

\* getProductForAssignment: the stored value is normalized against the
\* product it belongs to.
LoadProduct ==
    /\ pass < MaxLoads
    /\ pass > 0 =>
          /\ mappingResult.status = "returned"
          /\ rawValue = Stringify(mappingResult.value[1])
    /\ mappingResult' =
          CallNormalizeProductMapping(
              rawValue, product.options, product.variants, product.images)
    /\ pass' = pass + 1
    /\ UNCHANGED <<product, rawValue, settingsVars, storeVars, editorVars,
                   identityVars>>

\* saveProductMapping: the canonical value is written back as JSON.
PersistMapping ==
    /\ pass > 0
    /\ mappingResult.status = "returned"
    /\ rawValue # Stringify(mappingResult.value[1])
    /\ rawValue' = Stringify(mappingResult.value[1])
    /\ UNCHANGED <<product, mappingResult, pass, settingsVars, storeVars, editorVars,
                   identityVars>>

NextMapping == LoadProduct \/ PersistMapping
SpecMapping == InitMapping /\ [][NextMapping]_vars

(***************************************************************************)
(* Storefront runtime: bootstrap payload and page                          *)
(***************************************************************************)
\* An image URL: .../<stem><size>.<ext>?<query>.  Stem 0 is a file the
\* catalog does not know; EmptyUrl is the empty string.
Url(stem, size, query) ==
    [stem |-> stem, size |-> size, ext |-> "jpg", query |-> query]
EmptyUrl == [stem |-> 0, size |-> "", ext |-> "", query |-> ""]

\* The suffixes /_\d*x\d*\.([^.]+)$/ removes.
SizeSuffixes == {"_800x", "_400x600", "_x600"}

\* Lines 69-75: the query is dropped, the last path segment taken and the
\* size suffix removed.
baseFilename(url) ==
    IF url = EmptyUrl THEN [stem |-> 0, size |-> "", ext |-> ""]
    ELSE [stem |-> url.stem,
          size |-> IF url.size \in SizeSuffixes THEN "" ELSE url.size,
          ext |-> url.ext]

\* imageUrls of the payload: every catalog image under its original URL.
ImageUrls == [i \in 1..NumImages |-> Url(i, "", "v=1")]

\* Mutant: a file name the table does not hold resolves to an ID of its own.
filenameToId_unknownAsId(imageUrls, filename) ==
    LET ids == {i \in DOMAIN imageUrls : baseFilename(imageUrls[i]) = filename}
    IN IF ids = {} THEN Str("unknown")
       ELSE NumStr(CHOOSE i \in ids : \A j \in ids : j <= i)

\* Lines 78-81: the ID registered for a file name, EmptyStr when none is.
filenameToId(imageUrls, filename) ==
    LET ids == {i \in DOMAIN imageUrls : baseFilename(imageUrls[i]) = filename}
    IN IF ids = {} THEN EmptyStr
       ELSE NumStr(CHOOSE i \in ids : \A j \in ids : j <= i)

\* The image lists a stored mapping holds on the storefront: the first or
\* the last images of the catalog, in ascending order.
RECURSIVE AscendingIds(_)
AscendingIds(S) ==
    IF S = {} THEN <<>>
    ELSE LET m == CHOOSE i \in S : \A j \in S : j <= i
         IN Append(AscendingIds(S \ {m}), NumStr(m))
FirstImages == {ArrayValue(AscendingIds(1..m)) : m \in 0..NumImages}
LastImages == {ArrayValue(AscendingIds(m..NumImages)) : m \in {1, NumImages}}

\* The tables with the key k1 (holding one of lists1), the key k2 (one of
\* lists2), both or neither.
StoreTables(k1, lists1, k2, lists2) ==
    {[k \in K |-> IF k = k1 THEN v1 ELSE v2] :
        K \in SUBSET {k1, k2}, v1 \in lists1, v2 \in lists2}

\* Option-mode mappings for the Color axis (a key of the Size axis may be
\* left over), one whose optionName is no option of the product, and
\* variant-keyed legacy mappings.
PayloadMappings ==
    {ParsedObject(Str("option"), Str("Color"), <<TableValue(t)>>, <<>>) :
        t \in StoreTables(Str("Black"), FirstImages, Str("Red"), LastImages)
              \cup (StoreTables(Str("Black"), FirstImages, Str("L"), LastImages)
                      \ {<<>>})}
    \cup {ParsedObject(Str("option"), Str("Stale"), <<TableValue(t)>>, <<>>) :
        t \in StoreTables(Str("Black"), FirstImages, Str("Black"), FirstImages)}
    \cup {ParsedObject(EmptyStr, EmptyStr, <<>>, t) :
        t \in StoreTables(NumStr(1), FirstImages, NumStr(3), LastImages)}

\* The payload the theme embed renders for a Color/Size product.
Payloads ==
    {[mapping |-> m,
      imageUrls |-> ImageUrls,
      settings |-> [enabled |-> TRUE, hideUnassignedImages |-> h],
      optionNames |-> <<Str("Color"), Str("Size")>>,
      variantOptions |->
         [k \in {NumStr(v) : v \in 1..NumVariants} |->
            <<VariantValue(k.num, Str("Color")), VariantValue(k.num, Str("Size"))>>]] :
        m \in PayloadMappings, h \in BOOLEAN}

\* The other payloads the script can be given: legacy entries of the form
\* {imageIds: [...]}, an option-mode entry of that form, option-mode
\* mappings whose optionName is absent or is no option of the product
\* (keyed by option value or by variant ID), a null mapping, and the
\* settings with enabled either way.
ImageIdsValue(ids) == [shape |-> "imageIds", ids |-> ids]
BootstrapMappings ==
    {ParsedObject(EmptyStr, EmptyStr, <<>>, t) :
        t \in {NumStr(1) :> ImageIdsValue(<<NumStr(1)>>),
               (NumStr(1) :> ImageIdsValue(<<NumStr(1)>>))
                  @@ (NumStr(3) :> ArrayValue(<<NumStr(NumImages)>>)),
               NumStr(1) :> ArrayValue(<<NumStr(1)>>)}}
    \cup {ParsedObject(Str("option"), n, <<TableValue(t)>>, <<>>) :
        n \in {EmptyStr, Str("Color"), Str("Stale")},
        t \in {Str("Black") :> ArrayValue(<<NumStr(1)>>),
               Str("Black") :> ImageIdsValue(<<NumStr(1)>>),
               NumStr(1) :> ArrayValue(<<NumStr(1)>>)}}
    \cup {ParsedOther("null")}
BootstrapPayloads ==
    {[mapping |-> m,
      imageUrls |-> ImageUrls,
      settings |-> [enabled |-> e, hideUnassignedImages |-> h],
      optionNames |-> <<Str("Color"), Str("Size")>>,
      variantOptions |->
         [k \in {NumStr(v) : v \in 1..NumVariants} |->
            <<VariantValue(k.num, Str("Color")), VariantValue(k.num, Str("Size"))>>]] :
        m \in BootstrapMappings, e \in BOOLEAN, h \in BOOLEAN}

\* Lines 56-63.
mappingMode(cfg) ==
    IF cfg.mapping.type = "object" /\ cfg.mapping.mode = Str("option")
    THEN "option" ELSE "variant"
mappedOptionName(cfg) ==
    IF mappingMode(cfg) = "option" THEN cfg.mapping.optionName ELSE EmptyStr
mappingTable(cfg) ==
    IF mappingMode(cfg) = "option"
    THEN (IF cfg.mapping.mapping # <<>> /\ cfg.mapping.mapping[1].type = "object"
          THEN cfg.mapping.mapping[1].top ELSE EmptyTable)
    ELSE cfg.mapping.top

\* A page element: a gallery item (what findGalleryItems returns) or a
\* thumbnail (what the thumbnail selectors match), with the src of its img
\* (EmptyUrl without one), its vi--hidden state and aria-current.
Element(kind, src, current) ==
    [kind |-> kind, src |-> src, hidden |-> FALSE, current |-> current]
GallerySource(stem) == Url(stem, "_800x", "v=2")
ThumbSources == {Url(1, "_400x600", ""), EmptyUrl}

RECURSIVE AscendingStems(_)
AscendingStems(S) ==
    IF S = {} THEN <<>>
    ELSE LET m == CHOOSE i \in S : \A j \in S : j <= i
         IN Append(AscendingStems(S \ {m}), m)

\* The page: the gallery shows a leading or a trailing run of the catalog's
\* images in catalog order, image 0 being one the catalog does not know;
\* the thumbnail strip has at most one element.  The theme marks the first
\* gallery element as the current slide, or none.
Pages ==
    {g \o t :
        g \in {[i \in 1..Cardinality(S) |->
                    Element("gallery", GallerySource(AscendingStems(S)[i]),
                            c /\ i = 1)] :
                 S \in {0..m : m \in -1..NumImages}
                           \cup {m..NumImages : m \in 1..NumImages},
                 c \in BOOLEAN},
        t \in {<<>>} \cup {<<Element("thumb", u, FALSE)>> : u \in ThumbSources}}

(***************************************************************************)
(* Storefront runtime: filterGallery and the event handlers                *)
(***************************************************************************)
\* Line 119-122.
getImgSrc(el) == el.src

\* Mutant: hiding toggles the vi--hidden class instead of adding it.
setVisible_toggle(el, visible) ==
    [el EXCEPT !.hidden = IF visible THEN FALSE ELSE ~el.hidden]

\* Lines 199-209.
setVisible(el, visible) == [el EXCEPT !.hidden = ~visible]

\* Mutant: the variant's last option value is read, not the mapped one.
ResolveMappingKey_lastOption(cfg, variantKey) ==
    IF mappingMode(cfg) = "option" /\ Truthy(mappedOptionName(cfg))
    THEN IF mappedOptionName(cfg) \notin Range(cfg.optionNames) THEN variantKey
         ELSE IF variantKey \in DOMAIN cfg.variantOptions
              THEN cfg.variantOptions[variantKey][Len(cfg.variantOptions[variantKey])]
              ELSE Str("__unknown__")
    ELSE variantKey

\* Lines 128-137: the key the mapping table is read with.
ResolveMappingKey(cfg, variantKey) ==
    IF mappingMode(cfg) = "option" /\ Truthy(mappedOptionName(cfg))
    THEN LET found == {i \in 1..Len(cfg.optionNames) :
                          cfg.optionNames[i] = mappedOptionName(cfg)}
         IN IF found = {} THEN variantKey
            ELSE LET optionIndex == FirstIndex(found) IN
                 IF /\ variantKey \in DOMAIN cfg.variantOptions
                    /\ optionIndex <= Len(cfg.variantOptions[variantKey])
                    /\ Truthy(cfg.variantOptions[variantKey][optionIndex])
                 THEN cfg.variantOptions[variantKey][optionIndex]
                 ELSE Str("__unknown__")
    ELSE variantKey

\* Mutant: the lists are not flattened, so no ID is ever found assigned.
allAssignedImageIds_unflattened(table) == {}

\* Line 140: every image ID found in some entry of the table.
\* flat() spreads the entries that are arrays; an entry that is an object
\* stays in the set as itself and equals no image ID.
allAssignedImageIds(table) ==
    UNION {Range(table[k].ids) :
             k \in {j \in DOMAIN table : table[j].shape = "array"}}

\* Mutant: the fallback for unassigned images is left out.
ElementVisible_noFallback(cfg, allowedIds, el) ==
    LET imgId == filenameToId(cfg.imageUrls, baseFilename(getImgSrc(el)))
    IN Truthy(imgId) /\ imgId \in Range(allowedIds)

\* Lines 156-168 and 179-191: the decision for one element.
ElementVisible(cfg, allowedIds, el) ==
    LET imgId == filenameToId(cfg.imageUrls, baseFilename(getImgSrc(el)))
    IN \/ Truthy(imgId) /\ imgId \in Range(allowedIds)
       \/ /\ Truthy(imgId)
          /\ ~cfg.settings.hideUnassignedImages
          /\ imgId \notin allAssignedImageIds(mappingTable(cfg))

\* Mutant: the thumbnail strip is forgotten.
showNone_galleryOnly(its) ==
    [i \in 1..Len(its) |->
        IF its[i].kind = "gallery" THEN setVisible(its[i], FALSE) ELSE its[i]]

\* Lines 211-216.
showNone(its) == [i \in 1..Len(its) |-> setVisible(its[i], FALSE)]

GalleryIndexes(its) == {i \in 1..Len(its) : its[i].kind = "gallery"}

\* Mutant: the first visible element is clicked whatever the active slide.
activateFirstVisible_always(its, firstVisible) == firstVisible

\* Lines 219-228: the element clicked, 0 when none is.
activateFirstVisible(its, firstVisible) ==
    LET selected == {i \in GalleryIndexes(its) : its[i].current}
    IN IF selected # {} /\ its[FirstIndex(selected)].hidden
       THEN firstVisible ELSE 0

\* Line 148: new Set(allowedIds) accepts an array and raises a TypeError
\* for a plain object.
Iterable(allowedIds) == allowedIds.shape = "array"

\* Lines 125-197.  Yields the page after the call, the element clicked and
\* the error raised ("" when the call completes).
filterGallery(cfg, its, variantId) ==
    IF ~Truthy(variantId) THEN [items |-> its, clicked |-> 0, error |-> ""]
    ELSE
        LET mappingKey == ResolveMappingKey(cfg, variantId)
            table == mappingTable(cfg)
        IN
        IF mappingKey \notin DOMAIN table
        THEN [items |-> showNone(its), clicked |-> 0, error |-> ""]
        ELSE IF ~Iterable(table[mappingKey])
        THEN [items |-> its, clicked |-> 0, error |-> "TypeError"]
        ELSE IF GalleryIndexes(its) = {}
        THEN [items |-> its, clicked |-> 0, error |-> ""]
        ELSE
            LET allowedIds ==
                    IF table[mappingKey].shape = "array"
                    THEN table[mappingKey].ids ELSE <<>>
                after == [i \in 1..Len(its) |->
                            setVisible(its[i], ElementVisible(cfg, allowedIds, its[i]))]
                shown == {i \in GalleryIndexes(after) : ~after[i].hidden}
            IN [items |-> after,
                clicked |-> IF shown = {} THEN 0
                            ELSE activateFirstVisible(after, FirstIndex(shown)),
                error |-> ""]

EventVariantIds == {NumStr(v) : v \in 1..(NumVariants + 1)}

\* A call of filterGallery made by `caller`, which catches nothing.
RunFilter(variantId, caller) ==
    LET result == filterGallery(config, items, variantId) IN
    /\ items' = result.items
    /\ clicked' = result.clicked
    /\ filteredFor' = variantId
    /\ uncaught' = IF result.error = "" THEN uncaught
                   ELSE uncaught \cup {caller}

\* Mutant: the enabled setting is not looked at.
BootstrapAccepted_settingsIgnored(cfg) ==
    cfg.mapping.type \in {"object", "array"}

\* Lines 35-64: the script goes on to init only with a mapping that is an
\* object and settings that do not disable it.
BootstrapAccepted(cfg) ==
    /\ cfg.mapping.type \in {"object", "array"}
    /\ cfg.settings.enabled

\* Mutant: the script body without the guard of lines 13-14.
boot_unguarded ==
    /\ initialized' = TRUE
    /\ \E readable \in BOOLEAN :
          initScheduled' = (readable /\ BootstrapAccepted(config))
    /\ UNCHANGED <<config, items, lastVariantId, filteredFor, clicked, booted,
                   uncaught, settingsVars, mappingVars, editorVars,
                   identityVars>>

\* Lines 10-64 and 307-313: the script body.  A second copy of the script
\* returns at once; the first one schedules init unless a guard returns:
\* the data element is missing or its text unparsable at that moment
\* (lines 17-25, readable = FALSE), or the payload is not accepted.
boot ==
    /\ initialized' = TRUE
    /\ \E readable \in BOOLEAN :
          initScheduled' =
              IF initialized THEN initScheduled
              ELSE readable /\ BootstrapAccepted(config)
    /\ UNCHANGED <<config, items, lastVariantId, filteredFor, clicked, booted,
                   uncaught, settingsVars, mappingVars, editorVars,
                   identityVars>>

\* Mutant: the comparison with the last handled ID is left out.
handleVariantChange_unguarded(variantId, caller) ==
    IF ~Truthy(variantId)
    THEN UNCHANGED <<items, clicked, filteredFor, lastVariantId, uncaught>>
    ELSE lastVariantId' = variantId /\ RunFilter(variantId, caller)

\* Lines 254-258.
handleVariantChange(variantId, caller) ==
    IF ~Truthy(variantId) \/ variantId = lastVariantId
    THEN UNCHANGED <<items, clicked, filteredFor, lastVariantId, uncaught>>
    ELSE lastVariantId' = variantId /\ RunFilter(variantId, caller)

InitStore ==
    /\ config \in Payloads
    /\ items \in Pages
    /\ lastVariantId = EmptyStr
    /\ filteredFor = EmptyStr
    /\ clicked = 0
    /\ booted = FALSE
    /\ uncaught = {}
    /\ initialized = FALSE /\ initScheduled = FALSE
    /\ SettingsIdle /\ MappingIdle /\ EditorIdle /\ IdentityIdle

\* Lines 260-263: the initial filter; the theme may report no variant.
init ==
    /\ initScheduled
    /\ initScheduled' = FALSE
    /\ booted' = TRUE
    /\ \E initial \in EventVariantIds \cup {EmptyStr} :
          handleVariantChange(initial, "init")
    /\ UNCHANGED <<config, initialized, settingsVars, mappingVars, editorVars,
                   identityVars>>

\* The listeners are registered after the initial filter (lines 263-304),
\* so there are none when that call raised.
Listening == booted /\ "init" \notin uncaught

\* Lines 268-298: a listener reports a variant ID.
VariantChanged ==
    /\ Listening
    /\ \E id \in EventVariantIds : handleVariantChange(id, "listener")
    /\ UNCHANGED <<config, booted, initialized, initScheduled, settingsVars,
                   mappingVars, editorVars, identityVars>>

\* Lines 301-304: shopify:section:load filters without the duplicate guard.
SectionLoad ==
    /\ Listening
    /\ \E vid \in EventVariantIds : RunFilter(vid, "listener")
    /\ UNCHANGED <<config, booted, lastVariantId, initialized, initScheduled,
                   settingsVars, mappingVars, editorVars, identityVars>>

Next == boot \/ init \/ VariantChanged \/ SectionLoad
Spec == InitStore /\ [][Next]_vars

\* The same script given any of the other payloads.
InitBootstrap ==
    /\ config \in BootstrapPayloads
    /\ items \in Pages
    /\ lastVariantId = EmptyStr
    /\ filteredFor = EmptyStr
    /\ clicked = 0
    /\ booted = FALSE
    /\ uncaught = {}
    /\ initialized = FALSE /\ initScheduled = FALSE
    /\ SettingsIdle /\ MappingIdle /\ EditorIdle /\ IdentityIdle
SpecBootstrap == InitBootstrap /\ [][Next]_vars

(***************************************************************************)
(* Image identity, character by character.  A text is a sequence of        *)
(* one-character strings.                                                  *)
(***************************************************************************)
Digits == {"0", "1", "2", "4", "6", "8"}

FirstOf(t, c) ==
    LET at == {i \in 1..Len(t) : t[i] = c}
    IN IF at = {} THEN 0 ELSE CHOOSE i \in at : \A j \in at : i <= j
LastOf(t, c) ==
    LET at == {i \in 1..Len(t) : t[i] = c}
    IN IF at = {} THEN 0 ELSE CHOOSE i \in at : \A j \in at : j <= i

\* url.split("?")[0]
BeforeQuery(t) ==
    IF FirstOf(t, "?") = 0 THEN t ELSE SubSeq(t, 1, FirstOf(t, "?") - 1)
\* path.split("/").pop() || ""
LastSegment(t) == SubSeq(t, LastOf(t, "/") + 1, Len(t))

\* /_\d*x\d*\.([^.]+)$/ matches name from position p: an underscore,
\* digits, an x at position q, digits, the last dot of the name and at least
\* one more character.
SuffixMatch(name, p, q) ==
    LET dot == LastOf(name, ".") IN
    /\ name[p] = "_" /\ p < q /\ name[q] = "x" /\ q < dot /\ dot < Len(name)
    /\ \A k \in (p + 1)..(q - 1) : name[k] \in Digits
    /\ \A k \in (q + 1)..(dot - 1) : name[k] \in Digits
SuffixStarts(name) ==
    {p \in 1..Len(name) : \E q \in 1..Len(name) : SuffixMatch(name, p, q)}

\* Where String.prototype.replace finds the pattern: the leftmost match, 0
\* when there is none.
SizeSuffixStart(name) ==
    LET starts == SuffixStarts(name)
    IN IF starts = {} THEN 0 ELSE CHOOSE p \in starts : \A r \in starts : p <= r

\* Lines 69-75.
baseFilenameOfText(url) ==
    IF url = <<>> THEN <<>>
    ELSE LET name == LastSegment(BeforeQuery(url))
             start == SizeSuffixStart(name)
         IN IF start = 0 THEN name
            ELSE SubSeq(name, 1, start - 1)
                 \o SubSeq(name, LastOf(name, "."), Len(name))

\* Lines 78-81 and 158: the table is filled in Object.entries order, a later
\* image replacing an earlier one with the same key; EmptyStr when the key
\* is not in the table.
filenameToIdOfText(imageUrlTexts, filename) ==
    LET ids == {i \in DOMAIN imageUrlTexts :
                    baseFilenameOfText(imageUrlTexts[i]) = filename}
    IN IF ids = {} THEN EmptyStr
       ELSE NumStr(CHOOSE i \in ids : \A j \in ids : j <= i)

\* File stems: plain ones, one with a dot, and ones that end the way a size
\* suffix does (hero_2x.jpg, hero_x6.jpg).
Stems ==
    {<<"a">>, <<"b">>, <<"a", ".", "b">>, <<"a", "_", "2", "x">>,
     <<"b", "_", "x", "6">>}
SizeTexts ==
    {<<>>, <<"_", "8", "0", "0", "x">>, <<"_", "4", "0", "0", "x", "6", "0", "0">>,
     <<"_", "x", "6", "0", "0">>}
DirTexts == {<<>>, <<"/", "/", "c", "/", "s", "/">>}
QueryTexts == {<<>>, <<"?", "v", "=", "2">>}

\* The URL text of a file: directory, stem, size suffix, extension, query.
UrlText(dir, stem, size, query) == dir \o stem \o size \o <<".", "j", "p", "g">> \o query

Catalogs ==
    {c \in [1..NumImages -> Stems] : \A i, j \in 1..NumImages : i # j => c[i] # c[j]}
imageUrlTexts == [i \in DOMAIN catalog |-> UrlText(<<"/", "/", "c", "/", "s", "/">>, catalog[i], <<>>, <<"?", "v", "=", "1">>)]

InitIdentity ==
    /\ catalog \in Catalogs
    /\ displayed \in
          {[image |-> i, dir |-> d, size |-> z, query |-> q] :
              i \in 0..NumImages, d \in DirTexts, z \in SizeTexts, q \in QueryTexts}
    /\ resolution = Pending
    /\ SettingsIdle /\ MappingIdle /\ StoreIdle /\ EditorIdle

\* What the element shows: catalog image `image` at some size, or a file the
\* catalog does not have when image = 0.
DisplayedText ==
    UrlText(displayed.dir,
            IF displayed.image = 0 THEN <<"z">> ELSE catalog[displayed.image],
            displayed.size, displayed.query)

\* Lines 156-158: the element's base filename and image ID.
ResolveIdentity ==
    /\ resolution = Pending
    /\ resolution' =
          Returned([filename |-> baseFilenameOfText(DisplayedText),
                    imgId |-> filenameToIdOfText(imageUrlTexts,
                                  baseFilenameOfText(DisplayedText))])
    /\ UNCHANGED <<catalog, displayed, settingsVars, mappingVars, storeVars,
                   editorVars>>

NextIdentity == ResolveIdentity
SpecIdentity == InitIdentity /\ [][NextIdentity]_vars

(***************************************************************************)
(* Assign-images editor: the page state, its handlers and the save action  *)
(***************************************************************************)
MaxSteps == 3       \* edits and submissions made in the editor

ProductId == [text |-> "gid://shopify/Product/", num |-> 1]

\* The products the editor is opened on carry all the catalog's images.
EditorProducts == {p \in Products : Len(p.images) = NumImages}

\* What the product metafield holds when the editor is opened: nothing, a
\* mapping without and with a shared image, and a legacy mapping.
EditorStoredValues ==
    {RawInput("nullish", EmptyParsed),
     RawInput("json", ParsedObject(Str("option"), Str("Color"),
        <<TableValue(Str("Black") :> ArrayValue(<<NumStr(1)>>))>>, <<>>)),
     RawInput("json", ParsedObject(Str("option"), Str("Color"),
        <<TableValue((Str("Black") :> ArrayValue(<<NumStr(1)>>))
                     @@ (Str("Red") :> ArrayValue(<<NumStr(1)>>)))>>, <<>>)),
     RawInput("json", ParsedObject(EmptyStr, EmptyStr, <<>>,
        (NumStr(1) :> ArrayValue(<<NumStr(1)>>))
        @@ (NumStr(3) :> ArrayValue(<<NumStr(NumImages)>>))))}

\* JSON.stringify of the editor's mapping, as JSON.parse reads it back.
FormMapping(m) == TableValue([k \in DOMAIN m |-> ArrayValue(m[k])])

\* getProductForAssignment: null for an unknown product ID.
getProductForAssignment(productId) ==
    IF productId # ProductId THEN Thrown("null")
    ELSE CallNormalizeProductMapping(
             rawValue, product.options, product.variants, product.images)

JsonResponse(status, ok, error) ==
    [status |-> status, ok |-> ok, error |-> error, intent |-> "",
     write |-> <<>>]

\* The route's action: the response and, in write, the value handed to
\* saveProductMapping.
action(intent, productId, optionName, rawMapping) ==
    IF ~Truthy(productId) THEN JsonResponse(400, FALSE, "Missing product id")
    ELSE IF getProductForAssignment(productId).status # "returned"
    THEN JsonResponse(404, FALSE, "Product not found")
    ELSE
        LET resolvedOptionName ==
                IF OptionNamed(product.options, optionName) # {}
                THEN optionName
                ELSE IF Len(product.options) > 0 THEN product.options[1].name
                ELSE EmptyStr
            found == OptionNamed(product.options, resolvedOptionName)
            optionValues ==
                IF found = {} THEN <<>>
                ELSE product.options[FirstIndex(found)].values
            saved ==
                IF intent = "reset" THEN EmptyTable
                ELSE normalizeOptionMapping(rawMapping, optionValues,
                                            product.images)
        IN IF ~Truthy(resolvedOptionName)
           THEN JsonResponse(400, FALSE, "Product has no options")
           ELSE [status |-> 200, ok |-> TRUE, error |-> "", intent |-> intent,
                 write |-> <<[mode |-> "option",
                              optionName |-> resolvedOptionName,
                              mapping |-> saved]>>]

\* fetcher.submit: the action runs and saveProductMapping stores its value.
Submit(intent, productId, optionName, rawMapping) ==
    LET response == action(intent, productId, optionName, rawMapping) IN
    /\ fetcherData' = [response EXCEPT !.write = <<>>]
    /\ IF response.write = <<>>
       THEN UNCHANGED <<rawValue, written>>
       ELSE /\ rawValue' = Stringify(response.write[1])
            /\ written' = [status |-> "action", value |-> response.write]

Loaded == mappingResult.status = "returned"

\* selectedOption?.values ?? []
SelectedOptionValues ==
    LET found == OptionNamed(product.options, selectedOptionName)
    IN IF found = {} THEN <<>> ELSE product.options[FirstIndex(found)].values

ImagesOf(m, key) == IF key \in DOMAIN m THEN m[key] ELSE <<>>
Without(ids, removed) == SeqFilter(ids, Range(ids) \ removed)

\* Mutant: the image is added without being taken from the other values.
toggleImage_shared(prev, imageId) ==
    LET current == ImagesOf(prev, activeOptionValue)
        nextValueImages ==
            IF imageId \in Range(current) THEN Without(current, {imageId})
            ELSE Append(current, imageId)
    IN [key \in DOMAIN prev \cup {activeOptionValue} |->
            IF key = activeOptionValue THEN nextValueImages ELSE prev[key]]

\* The image button's onClick, as the updater of setMapping.
toggleImage(prev, imageId) ==
    LET current == ImagesOf(prev, activeOptionValue)
        isSelected == imageId \in Range(current)
        nextValueImages ==
            IF isSelected THEN Without(current, {imageId})
            ELSE Append(current, imageId)
    IN [key \in DOMAIN prev \cup {activeOptionValue} |->
            IF key = activeOptionValue THEN nextValueImages
            ELSE IF ~settings.allowSharedImages /\ ~isSelected
            THEN Without(prev[key], {imageId})
            ELSE prev[key]]

\* "Select all".
selectAll(prev) ==
    LET allIds == MapSeq(product.images, toNumericId)
    IN [key \in DOMAIN prev \cup {activeOptionValue} |->
            IF key = activeOptionValue THEN allIds
            ELSE IF ~settings.allowSharedImages
            THEN Without(prev[key], Range(allIds))
            ELSE prev[key]]

InitEditor ==
    /\ product \in EditorProducts
    /\ rawValue \in EditorStoredValues
    /\ mappingResult = Pending
    /\ pass = 0
    /\ settings \in {[DEFAULT_SETTINGS EXCEPT !.allowSharedImages = b] :
                        b \in BOOLEAN}
    /\ selectedOptionName = EmptyStr /\ mapping = <<>>
    /\ activeOptionValue = EmptyStr /\ fetcherData = Idle /\ written = Idle
    /\ steps = 0
    /\ extensionMapping = Idle /\ selectedVariantNumId = EmptyStr
    /\ SettingsIdle /\ StoreIdle /\ IdentityIdle

\* The loader, and the useState/useEffect initialisation from its product.
LoadPage ==
    /\ mappingResult' = getProductForAssignment(ProductId)
    /\ mappingResult'.status = "returned"
    /\ selectedOptionName' = mappingResult'.value[1].optionName
    /\ mapping' = mappingResult'.value[1].mapping
    /\ activeOptionValue' = EmptyStr
    /\ UNCHANGED <<product, rawValue, pass, settings, fetcherData, written,
                   steps, settingsVars, storeVars, extensionVars,
                   identityVars>>

\* "Assign images" on the card of an option value.
OpenValue ==
    /\ Loaded
    /\ \E value \in Range(SelectedOptionValues) : activeOptionValue' = value
    /\ UNCHANGED <<mappingVars, settings, selectedOptionName, mapping,
                   fetcherData, written, steps, settingsVars, storeVars, extensionVars,
                   identityVars>>

\* "Confirm selection" and the modal's close.
ConfirmSelection ==
    /\ Loaded /\ Truthy(activeOptionValue)
    /\ activeOptionValue' = EmptyStr
    /\ UNCHANGED <<mappingVars, settings, selectedOptionName, mapping,
                   fetcherData, written, steps, settingsVars, storeVars, extensionVars,
                   identityVars>>

ToggleImage ==
    /\ Loaded /\ Truthy(activeOptionValue) /\ steps < MaxSteps
    /\ \E i \in 1..Len(product.images) :
          mapping' = toggleImage(mapping, toNumericId(product.images[i]))
    /\ steps' = steps + 1
    /\ UNCHANGED <<mappingVars, settings, selectedOptionName,
                   activeOptionValue, fetcherData, written, settingsVars,
                   storeVars, extensionVars, identityVars>>

SelectAll ==
    /\ Loaded /\ Truthy(activeOptionValue) /\ steps < MaxSteps
    /\ mapping' = selectAll(mapping)
    /\ steps' = steps + 1
    /\ UNCHANGED <<mappingVars, settings, selectedOptionName,
                   activeOptionValue, fetcherData, written, settingsVars,
                   storeVars, extensionVars, identityVars>>

\* Mutant: the axis changes and the in-progress mapping stays.
ChangeAxis_keepsMapping ==
    /\ Loaded /\ steps < MaxSteps
    /\ \E i \in 1..Len(product.options) :
          /\ product.options[i].name # selectedOptionName
          /\ selectedOptionName' = product.options[i].name
    /\ activeOptionValue' = EmptyStr
    /\ steps' = steps + 1
    /\ UNCHANGED <<mappingVars, settings, mapping, fetcherData, written,
                   settingsVars, storeVars, extensionVars, identityVars>>

\* "Variant type to map": the Select reports a value other than the one
\* it shows.
ChangeAxis ==
    /\ Loaded /\ steps < MaxSteps
    /\ \E i \in 1..Len(product.options) :
          /\ product.options[i].name # selectedOptionName
          /\ selectedOptionName' = product.options[i].name
    /\ mapping' = <<>>
    /\ activeOptionValue' = EmptyStr
    /\ steps' = steps + 1
    /\ UNCHANGED <<mappingVars, settings, fetcherData, written, settingsVars,
                   storeVars, extensionVars, identityVars>>

Save ==
    /\ Loaded /\ steps < MaxSteps
    /\ Submit("save", ProductId, selectedOptionName, FormMapping(mapping))
    /\ steps' = steps + 1
    /\ UNCHANGED <<product, mappingResult, pass, settings, selectedOptionName,
                   mapping, activeOptionValue, settingsVars, storeVars, extensionVars,
                   identityVars>>

Reset ==
    /\ Loaded /\ steps < MaxSteps
    /\ mapping' = <<>>
    /\ Submit("reset", ProductId, selectedOptionName, FormMapping(<<>>))
    /\ steps' = steps + 1
    /\ UNCHANGED <<product, mappingResult, pass, settings, selectedOptionName,
                   activeOptionValue, settingsVars, storeVars, extensionVars,
                   identityVars>>

\* The product-page block loads the metafield with JSON.parse and an
\* absent one as the empty object.
ExtensionLoad ==
    /\ rawValue.form \in {"nullish", "json"}
    /\ extensionMapping' =
          IF rawValue.form = "nullish" THEN EmptyParsed ELSE rawValue.value
    /\ selectedVariantNumId' =
          IF Len(product.variants) > 0
          THEN toNumericId(product.variants[1].id) ELSE selectedVariantNumId
    /\ UNCHANGED <<mappingVars, settings, selectedOptionName, mapping,
                   activeOptionValue, fetcherData, written, steps,
                   settingsVars, storeVars, identityVars>>

ExtensionSelectVariant ==
    /\ extensionMapping # Idle /\ steps < MaxSteps
    /\ \E i \in 1..Len(product.variants) :
          selectedVariantNumId' = toNumericId(product.variants[i].id)
    /\ steps' = steps + 1
    /\ UNCHANGED <<mappingVars, settings, selectedOptionName, mapping,
                   activeOptionValue, fetcherData, written,
                   extensionMapping, settingsVars, storeVars, identityVars>>

\* toggleImage of the block: the entry of the selected variant gains or
\* loses the image and is deleted when it becomes empty.
ExtensionToggledMapping(prev, imgNumId) ==
    LET current ==
            IF selectedVariantNumId \in DOMAIN prev.top
            THEN prev.top[selectedVariantNumId].ids ELSE <<>>
        updated ==
            IF imgNumId \in Range(current) THEN Without(current, {imgNumId})
            ELSE Append(current, imgNumId)
        keys ==
            IF updated = <<>> THEN DOMAIN prev.top \ {selectedVariantNumId}
            ELSE DOMAIN prev.top \cup {selectedVariantNumId}
    IN [prev EXCEPT !.top =
            [k \in keys |-> IF k = selectedVariantNumId
                            THEN ArrayValue(updated) ELSE prev.top[k]]]

ExtensionToggle ==
    /\ extensionMapping # Idle /\ Truthy(selectedVariantNumId)
    /\ extensionMapping.type = "object"
    /\ steps < MaxSteps
    /\ \E i \in 1..Len(product.images) :
          extensionMapping' =
              ExtensionToggledMapping(extensionMapping,
                                      toNumericId(product.images[i]))
    /\ steps' = steps + 1
    /\ UNCHANGED <<mappingVars, settings, selectedOptionName, mapping,
                   activeOptionValue, fetcherData, written,
                   selectedVariantNumId, settingsVars, storeVars,
                   identityVars>>

\* saveMapping of the block: JSON.stringify(mapping) is written as it is.
ExtensionSave ==
    /\ extensionMapping # Idle /\ steps < MaxSteps
    /\ rawValue' = RawInput("json", extensionMapping)
    /\ written' = [status |-> "extension", value |-> <<extensionMapping>>]
    /\ steps' = steps + 1
    /\ UNCHANGED <<product, mappingResult, pass, settings, selectedOptionName,
                   mapping, activeOptionValue, fetcherData, extensionVars,
                   settingsVars, storeVars, identityVars>>

\* The assign-images page.
NextEditor ==
    \/ LoadPage \/ OpenValue \/ ConfirmSelection \/ ToggleImage \/ SelectAll
    \/ ChangeAxis \/ Save \/ Reset
SpecEditor == InitEditor /\ [][NextEditor]_vars

\* The product-page block, on the same products and stored values.
NextExtension ==
    \/ ExtensionLoad \/ ExtensionSelectVariant \/ ExtensionToggle
    \/ ExtensionSave
SpecExtension == InitEditor /\ [][NextExtension]_vars

\* The action of the assign-images route called with any form: a missing
\* or unknown product ID, any option name, and mappings with declared and
\* undeclared keys and with current and stale image IDs.
UnknownProductId == [text |-> "gid://shopify/Product/", num |-> 2]
RequestIntents == {"save", "reset"}
RequestProductIds == {EmptyStr, ProductId, UnknownProductId}
RequestOptionNames == {EmptyStr, Str("Color"), Str("Size"), Str("Stale")}
RequestMappings ==
    {TableValue(EmptyTable),
     TableValue((Str("Black") :> ArrayValue(<<NumStr(1)>>))
                @@ (Str("Red") :> ArrayValue(<<NumStr(1)>>)))}
    \cup {TableValue(k :> ArrayValue(l)) :
            k \in {Str("Black"), Str("Blue"), Str("M")},
            l \in {<<NumStr(1)>>, <<NumStr(1), NumStr(NumImages + 1)>>}}

InitAction ==
    /\ product \in Products
    /\ rawValue \in EditorStoredValues
    /\ mappingResult = Idle
    /\ pass = 0
    /\ EditorIdle /\ SettingsIdle /\ StoreIdle /\ IdentityIdle

Post ==
    /\ \E intent \in RequestIntents, productId \in RequestProductIds,
          optionName \in RequestOptionNames, rawMapping \in RequestMappings :
          Submit(intent, productId, optionName, rawMapping)
    /\ UNCHANGED <<product, mappingResult, pass, settings, selectedOptionName,
                   mapping, activeOptionValue, steps, settingsVars, storeVars,
                   extensionVars, identityVars>>

NextAction == Post
SpecAction == InitAction /\ [][NextAction]_vars

\* C12: while allowSharedImages is false, no mapping written by the save
\* action holds the same image ID under two different option values.
Exclusive(m) ==
    \A a \in DOMAIN m : \A b \in DOMAIN m :
        a # b => Range(m[a]) \cap Range(m[b]) = {}
C12_WritesExclusive ==
    (~settings.allowSharedImages /\ written.status = "action")
        => Exclusive(written.value[1].mapping)

(***************************************************************************)
(* Properties of the storefront runtime                                    *)
(***************************************************************************)
\* filterGallery has run, last for the variant filteredFor.
Filtered == Truthy(filteredFor)
HasEntry(variantId) ==
    ResolveMappingKey(config, variantId) \in DOMAIN mappingTable(config)
AllowedFor(variantId) ==
    Range(mappingTable(config)[ResolveMappingKey(config, variantId)].ids)
ResolvedImageId(el) == filenameToId(config.imageUrls, baseFilename(el.src))
InNoEntry(id) ==
    \A k \in DOMAIN mappingTable(config) : id \notin Range(mappingTable(config)[k].ids)
ThumbIndexes == {i \in 1..Len(items) : items[i].kind = "thumb"}
Hidden == [i \in 1..Len(items) |-> items[i].hidden]

\* C1: after filterGallery ran for a variant whose resolved mapping key has
\* no entry in the mapping table, every gallery and every thumbnail element
\* is hidden, whatever the settings and the earlier visibility.
C1_FailClosed ==
    (Filtered /\ ~HasEntry(filteredFor)) =>
        \A i \in GalleryIndexes(items) \cup ThumbIndexes : items[i].hidden

C1_Witness ==
    /\ Filtered /\ ~HasEntry(filteredFor)
    /\ lastVariantId # filteredFor /\ Truthy(lastVariantId) /\ HasEntry(lastVariantId)
    /\ ~config.settings.hideUnassignedImages
    /\ GalleryIndexes(items) # {} /\ ThumbIndexes # {}
    /\ \E i \in ThumbIndexes : Truthy(ResolvedImageId(items[i]))
    /\ \A i \in 1..Len(items) : items[i].hidden

\* C2 as stated: with hideUnassignedImages = false an element whose image
\* ID is in no mapping entry is visible after recomputation for every
\* selected variant, those without a mapping entry included.
C2_UnassignedAlwaysVisible ==
    (Filtered /\ ~config.settings.hideUnassignedImages) =>
        \A i \in 1..Len(items) :
            (Truthy(ResolvedImageId(items[i])) /\ InNoEntry(ResolvedImageId(items[i])))
                => ~items[i].hidden

\* C2 amended: the same of every gallery element, for every selected
\* variant whose mapping key has an entry.
C2_UnassignedVisibleWhenMapped ==
    (/\ Filtered /\ ~config.settings.hideUnassignedImages
     /\ HasEntry(filteredFor)) =>
        \A i \in GalleryIndexes(items) :
            (Truthy(ResolvedImageId(items[i])) /\ InNoEntry(ResolvedImageId(items[i])))
                => ~items[i].hidden

C2_Witness ==
    /\ Filtered /\ ~config.settings.hideUnassignedImages
    /\ HasEntry(filteredFor)
    /\ \E i \in GalleryIndexes(items) :
          /\ Truthy(ResolvedImageId(items[i]))
          /\ InNoEntry(ResolvedImageId(items[i]))
          /\ ResolvedImageId(items[i]) \notin AllowedFor(filteredFor)
          /\ ~items[i].hidden
    /\ \E i \in GalleryIndexes(items) : items[i].hidden

\* C3: when the selected variant's mapping key has an entry allowedIds, a
\* gallery element with resolved image ID i is visible exactly if i is in
\* allowedIds, or i is in no entry and hideUnassignedImages is false; every
\* other gallery element is hidden.
C3_VisibilityRule ==
    (Filtered /\ HasEntry(filteredFor)) =>
        \A i \in GalleryIndexes(items) :
            LET id == ResolvedImageId(items[i]) IN
            ~items[i].hidden <=>
                /\ Truthy(id)
                /\ \/ id \in AllowedFor(filteredFor)
                   \/ InNoEntry(id) /\ ~config.settings.hideUnassignedImages

C3_Witness ==
    /\ Filtered /\ HasEntry(filteredFor)
    /\ ~config.settings.hideUnassignedImages
    /\ \E i, j \in GalleryIndexes(items) :
          /\ ResolvedImageId(items[i]) \in AllowedFor(filteredFor)
          /\ ~items[i].hidden
          /\ Truthy(ResolvedImageId(items[j]))
          /\ ~InNoEntry(ResolvedImageId(items[j]))
          /\ ResolvedImageId(items[j]) \notin AllowedFor(filteredFor)
          /\ items[j].hidden

\* The mapped option is one of the product's options and both variants
\* select the same value for it.
MappedOptionResolved ==
    /\ mappingMode(config) = "option"
    /\ mappedOptionName(config) \in Range(config.optionNames)
SameMappedValue(v, w) ==
    /\ MappedOptionResolved
    /\ v \in DOMAIN config.variantOptions /\ w \in DOMAIN config.variantOptions
    /\ LET idx == FirstIndex({i \in 1..Len(config.optionNames) :
                                config.optionNames[i] = mappedOptionName(config)})
       IN config.variantOptions[v][idx] = config.variantOptions[w][idx]

\* C4: in option mode two variants with the same value for the mapped
\* option get the same visibility decision for every element, and going
\* from one to the other leaves every element's visibility as it was.
C4_SameValueSameDecision ==
    /\ [](\A v, w \in EventVariantIds :
            SameMappedValue(v, w) =>
                filterGallery(config, items, v).items
                    = filterGallery(config, items, w).items)
    /\ [][(/\ Filtered /\ filteredFor' # filteredFor
           /\ SameMappedValue(filteredFor, filteredFor')) => Hidden' = Hidden]_vars

C4_Witness ==
    /\ MappedOptionResolved
    /\ lastVariantId = NumStr(2) /\ filteredFor = NumStr(2)
    /\ SameMappedValue(NumStr(1), NumStr(2))
    /\ Str("L") \in DOMAIN mappingTable(config)
    /\ \E i, j \in GalleryIndexes(items) : items[i].hidden /\ ~items[j].hidden

\* C15: running filterGallery a second time with the same variant ID over
\* the same elements leaves every gallery and thumbnail element with the
\* visibility the first run gave it.
C15_RecomputationIdempotent ==
    /\ [](\A v \in EventVariantIds :
            LET once == filterGallery(config, items, v).items
            IN filterGallery(config, once, v).items = once)
    /\ [][(Filtered /\ filteredFor' = filteredFor) => Hidden' = Hidden]_vars

C15_Witness ==
    /\ Filtered /\ HasEntry(filteredFor)
    /\ filterGallery(config, items, filteredFor).items = items
    /\ ThumbIndexes # {}
    /\ \E i, j \in GalleryIndexes(items) : items[i].hidden /\ ~items[j].hidden

\* C16: a variant ID equal to the last handled one, or an empty one, makes
\* handleVariantChange recompute nothing and change no element; any other
\* ID is recorded as last handled and the gallery is recomputed for it.
HandlerStep == init \/ VariantChanged
C16_DuplicateSuppression ==
    [][HandlerStep =>
          IF lastVariantId' = lastVariantId
          THEN UNCHANGED <<items, filteredFor, clicked>>
          ELSE /\ Truthy(lastVariantId')
               /\ filteredFor' = lastVariantId'
               /\ items' = filterGallery(config, items, lastVariantId').items]_vars

\* The last handled variant is not the one the gallery was last filtered
\* for, so reporting it again would change elements if it were handled.
C16_Witness ==
    /\ Listening /\ Truthy(lastVariantId)
    /\ filteredFor # lastVariantId
    /\ filterGallery(config, items, lastVariantId).items # items

\* C17: with enabled = false in the bootstrap settings the engine handles
\* no variant event and changes no element: every element keeps the
\* visibility the theme gave it.
C17_DisabledLeavesThemeAlone ==
    ~config.settings.enabled =>
        /\ ~initScheduled /\ ~booted
        /\ lastVariantId = EmptyStr /\ ~Filtered /\ clicked = 0
        /\ \A i \in 1..Len(items) : ~items[i].hidden

C17_Witness ==
    /\ ~config.settings.enabled /\ initialized
    /\ config.mapping.type = "object"
    /\ DOMAIN mappingTable(config) # {}
    /\ GalleryIndexes(items) # {} /\ ThumbIndexes # {}

(***************************************************************************)
(* Properties of normalizeSettings                                         *)
(***************************************************************************)
SettingsFields == {"enabled", "allowSharedImages", "hideUnassignedImages"}

\* The field of the object an input denotes; undefined when the input
\* denotes no object.
InputField(raw, f) ==
    IF raw.form \in {"object", "json"} THEN raw.value[f] ELSE JsUndefined

\* C9: normalizeSettings is total: every input, the JSON string of a
\* non-object such as null included, yields a settings record and no error.
C9_SettingsTotal == settingsResult.status \in {"pending", "returned"}

\* C10: in the record normalizeSettings returns, each field is the input's
\* field when that is exactly a boolean and its default (true, true, false)
\* otherwise, and all three fields are there.
C10_BooleanFieldsOrDefaults ==
    settingsResult.status = "returned" =>
        LET out == settingsResult.value[1] IN
        /\ DOMAIN out = SettingsFields
        /\ \A f \in SettingsFields :
              out[f] = IF InputField(rawSettings, f).t = "boolean"
                       THEN InputField(rawSettings, f).b
                       ELSE DEFAULT_SETTINGS[f]

C10_Witness ==
    /\ settingsResult.status = "returned"
    /\ rawSettings.form = "json"
    /\ rawSettings.value.enabled = JsBool(FALSE)
    /\ rawSettings.value.allowSharedImages = JsOther("string")
    /\ rawSettings.value.hideUnassignedImages = JsBool(TRUE)
    /\ settingsResult.value[1] =
          [enabled |-> FALSE, allowSharedImages |-> TRUE,
           hideUnassignedImages |-> TRUE]

(***************************************************************************)
(* Properties of normalizeProductMapping                                   *)
(***************************************************************************)
Normalized == mappingResult.status = "returned"
Canonical == mappingResult.value[1]

OptionNames(p) == {p.options[i].name : i \in 1..Len(p.options)}
DeclaredValues(p, name) ==
    UNION {Range(p.options[i].values) :
             i \in {j \in 1..Len(p.options) : p.options[j].name = name}}
CurrentImageIds(p) == {NumStr(p.images[i].num) : i \in 1..Len(p.images)}

\* What the stored value is, read without the normalizer.
StoredObject == rawValue.form = "json" /\ rawValue.value.type = "object"
StoredCurrentShape == StoredObject /\ rawValue.value.mode = Str("option")
StoredOptionName ==
    IF StoredObject THEN rawValue.value.optionName ELSE EmptyStr

\* C5: the returned mapping has every key in the declared value set of the
\* returned optionName, every image ID in the product's current image-ID
\* set, and no key with an empty image list.
C5_DomainFiltering ==
    Normalized =>
        \A k \in DOMAIN Canonical.mapping :
            /\ k \in DeclaredValues(product, Canonical.optionName)
            /\ Canonical.mapping[k] # <<>>
            /\ Range(Canonical.mapping[k]) \subseteq CurrentImageIds(product)

LegacyEntries ==
    IF ~StoredObject THEN <<>>
    ELSE IF rawValue.value.mapping # <<>>
         THEN (IF rawValue.value.mapping[1].type = "object"
               THEN rawValue.value.mapping[1].top ELSE <<>>)
         ELSE rawValue.value.top
ValidEntryImages(entry) ==
    IF entry.shape \in {"array", "imageIds"}
    THEN {NumStr(entry.ids[i].num) : i \in 1..Len(entry.ids)}
            \cap CurrentImageIds(product)
    ELSE {}
VariantsSelecting(name, v) ==
    {NumStr(product.variants[i].id.num) :
        i \in {j \in 1..Len(product.variants) :
                 \E o \in Range(product.variants[j].selectedOptions) :
                     o.name = name /\ o.value = v}}
MigratedImages(v) ==
    IF v \in DOMAIN Canonical.mapping THEN Range(Canonical.mapping[v]) ELSE {}

\* C7: for a stored value without mode "option", each value v of the first
\* option gets exactly the union of the valid image IDs of the valid legacy
\* entries whose variant selects v; nothing else is a key.
C7_LegacyUnion ==
    (Normalized /\ pass = 1 /\ ~StoredCurrentShape) =>
        /\ \A v \in DOMAIN Canonical.mapping :
              Len(product.options) > 0 /\ v \in Range(product.options[1].values)
        /\ Len(product.options) > 0 =>
              \A v \in Range(product.options[1].values) :
                  MigratedImages(v) =
                      UNION {ValidEntryImages(LegacyEntries[k]) :
                               k \in {e \in DOMAIN LegacyEntries :
                                        NumStr(e.num) \in VariantsSelecting(
                                            product.options[1].name, v)}}

\* C8 as stated: the returned optionName is always a real option name, the
\* persisted one when that is real and the first option's name when the
\* persisted one is stale or absent, in both branches.
C8_OptionNameIsRealOption ==
    Normalized =>
        /\ Canonical.optionName \in OptionNames(product)
        /\ StoredOptionName \in OptionNames(product)
              => Canonical.optionName = StoredOptionName
        /\ (StoredOptionName \notin OptionNames(product) /\ Len(product.options) > 0)
              => Canonical.optionName = product.options[1].name

\* C8 amended: the returned optionName is the persisted one when the stored
\* value has mode "option" and that name is a real option; otherwise it is
\* the first option's name, or "Option" for a product without options.
C8_OptionNameResolved ==
    Normalized =>
        Canonical.optionName =
            IF StoredCurrentShape /\ StoredOptionName \in OptionNames(product)
            THEN StoredOptionName
            ELSE IF Len(product.options) > 0 THEN product.options[1].name
            ELSE Str("Option")

C8_Witness ==
    /\ Normalized /\ pass = 1
    /\ StoredCurrentShape
    /\ StoredOptionName = Str("Size")
    /\ Len(product.options) = 2
    /\ Canonical.optionName = Str("Size")
    /\ Canonical.mapping = <<>>

\* The stored values the claim C11 names, read without the normalizer.
StoredUnparsable == rawValue.form = "text"
StoredAbsent == rawValue.form \in {"nullish", "empty"}
StoredParsedType == IF StoredUnparsable \/ StoredAbsent THEN "none" ELSE rawValue.value.type
EmptyCanonical ==
    [mode |-> "option", optionName |-> FallbackOptionName(product.options),
     mapping |-> EmptyTable]

\* C11 as stated: normalizeProductMapping never raises an error, and for
\* unparsable, null, non-object (number, string) or array raw input it
\* returns mode "option", the fallback optionName and an empty mapping.
C11_TotalAndEmptyForNonObjects ==
    pass > 0 =>
        /\ Normalized
        /\ (StoredUnparsable \/ StoredAbsent
              \/ StoredParsedType \in {"null", "number", "string", "jsonText", "array"})
             => Canonical = EmptyCanonical

\* C11 amended: normalizeProductMapping never raises an error; for
\* unparsable, absent, null, number or array raw input, and for a JSON
\* string whose text is not itself the JSON of an object, it returns mode
\* "option", the fallback optionName and an empty mapping; a JSON string
\* whose text is the JSON of an object is normalized as that object read
\* as a legacy value.
C11_TotalAndEmptyForUnreadable ==
    pass > 0 =>
        /\ Normalized
        /\ (StoredUnparsable \/ StoredAbsent
              \/ StoredParsedType \in {"null", "number", "string", "array"})
             => Canonical = EmptyCanonical
        /\ StoredParsedType = "jsonText" =>
             /\ Canonical.mode = "option"
             /\ Canonical.optionName = FallbackOptionName(product.options)
             /\ Canonical.mapping =
                   MigrateEntries(
                       ObjectKeys(normalizeMapping(
                           [rawValue.value EXCEPT !.type = "object"],
                           MapSeq(product.variants, LAMBDA v : v.id),
                           product.images)),
                       normalizeMapping(
                           [rawValue.value EXCEPT !.type = "object"],
                           MapSeq(product.variants, LAMBDA v : v.id),
                           product.images),
                       product.variants, FallbackOptionName(product.options),
                       EmptyTable)

C11_Witness ==
    /\ pass = 1 /\ Normalized
    /\ rawValue = RawInput("json", ParsedOther("null"))
    /\ Len(product.options) = 2
    /\ Canonical = EmptyCanonical

\* C13: every write of the product metafield, from any save path, stores
\* a value with mode "option", an optionName and an option-value-keyed
\* mapping, and no variant-keyed entry.
C13_WritesCanonical ==
    written # Idle =>
        /\ rawValue.form = "json"
        /\ rawValue.value.type = "object"
        /\ rawValue.value.mode = Str("option")
        /\ Truthy(rawValue.value.optionName)
        /\ rawValue.value.mapping # <<>>
        /\ rawValue.value.top = <<>>

\* C14: for every parsable payload with a mapping and an image table, in
\* the current or either legacy shape, and every sequence of variant
\* events, filterGallery completes without raising an error.
C14_NeverThrows == uncaught = {}

\* C18: baseFilename drops the query, takes the last path segment and
\* removes the size suffix, so the URL of an image at any size gives the key
\* of its original URL, stem.ext, and the element resolves to that image.
C18_FilenameIdentity ==
    (resolution.status = "returned" /\ displayed.image # 0) =>
        /\ resolution.value[1].filename
              = catalog[displayed.image] \o <<".", "j", "p", "g">>
        /\ resolution.value[1].filename
              = baseFilenameOfText(imageUrlTexts[displayed.image])
        /\ resolution.value[1].imgId = NumStr(displayed.image)

\* The mapped option is named, is one of the option names, and the
\* variant has a value at its index.
MappedIndexes ==
    {i \in 1..Len(config.optionNames) :
        config.optionNames[i] = mappedOptionName(config)}
KeyResolvable(variantId) ==
    /\ Truthy(mappedOptionName(config))
    /\ MappedIndexes # {}
    /\ variantId \in DOMAIN config.variantOptions
    /\ FirstIndex(MappedIndexes) <= Len(config.variantOptions[variantId])
    /\ Truthy(config.variantOptions[variantId][FirstIndex(MappedIndexes)])

\* C19: in option mode the mapping key is the variant's value at the index
\* of the mapped option; when the option name is missing or is no option
\* name, or the variant has no value there, the key matches no entry of the
\* mapping table and filtering for the variant hides every element.
C19_MappingKeyOrSentinel ==
    (config # Idle /\ BootstrapAccepted(config) /\ mappingMode(config) = "option") =>
        /\ \A v \in EventVariantIds :
              IF KeyResolvable(v)
              THEN ResolveMappingKey(config, v)
                      = config.variantOptions[v][FirstIndex(MappedIndexes)]
              ELSE ResolveMappingKey(config, v) \notin DOMAIN mappingTable(config)
        /\ (Filtered /\ ~KeyResolvable(filteredFor) /\ uncaught = {})
              => \A i \in 1..Len(items) : items[i].hidden

\* C20: after a recomputation for a variant that has a mapping entry,
\* every thumbnail element has the visibility the rule of the gallery gives
\* its own resolved image ID, also when the gallery query found no element.
C20_ThumbnailsMirrored ==
    (Filtered /\ HasEntry(filteredFor)) =>
        \A i \in ThumbIndexes :
            LET id == ResolvedImageId(items[i]) IN
            ~items[i].hidden <=>
                /\ Truthy(id)
                /\ \/ id \in AllowedFor(filteredFor)
                   \/ InNoEntry(id) /\ ~config.settings.hideUnassignedImages

\* The slide the theme marks as active (aria-current on a media item) and
\* the gallery elements left visible.
ActiveSlides == {i \in GalleryIndexes(items) : items[i].current}
VisibleSlides == {i \in GalleryIndexes(items) : ~items[i].hidden}

\* C21: after a recomputation, when the slide the theme marks as active is
\* hidden and some gallery element is visible, the first visible gallery
\* element in document order is the one activated; when the active slide
\* is visible nothing is activated.
C21_ActiveSlideRecovery ==
    (Filtered /\ ActiveSlides # {}) =>
        IF items[FirstIndex(ActiveSlides)].hidden
        THEN VisibleSlides # {} => clicked = FirstIndex(VisibleSlides)
        ELSE clicked = 0

C21_Witness ==
    /\ Filtered /\ ActiveSlides # {}
    /\ items[FirstIndex(ActiveSlides)].hidden
    /\ Cardinality(VisibleSlides) > 1
    /\ clicked = FirstIndex(VisibleSlides)
    /\ \E i \in GalleryIndexes(items) : i < clicked /\ items[i].hidden

\* An element whose base file name is not in the lookup table.
InLookup(el) ==
    \E i \in DOMAIN config.imageUrls :
        baseFilename(config.imageUrls[i]) = baseFilename(getImgSrc(el))
Resolvable(its) == SeqFilter(its, {el \in Range(its) : InLookup(el)})
GalleryHidden(its) == [i \in GalleryIndexes(its) |-> its[i].hidden]

\* C22 as stated, of the gallery elements: an element whose identity cannot
\* be resolved is hidden exactly when hideUnassignedImages is true.
C22_UnresolvedFollowsFallback ==
    (Filtered /\ HasEntry(filteredFor)) =>
        \A i \in GalleryIndexes(items) :
            ~InLookup(items[i]) =>
                (items[i].hidden <=> config.settings.hideUnassignedImages)

\* C22 amended: no recomputation raises an error; a gallery element whose
\* identity cannot be resolved is hidden whatever hideUnassignedImages is;
\* and the other gallery elements get the visibility they get on the page
\* without the unresolvable elements.
C22_UnresolvedHidden ==
    /\ uncaught = {}
    /\ Filtered => \A i \in GalleryIndexes(items) : ~InLookup(items[i]) => items[i].hidden
    /\ \A v \in EventVariantIds :
          LET others == Resolvable(items)
              with == filterGallery(config, items, v)
              without == filterGallery(config, others, v)
          IN /\ with.error = ""
             /\ GalleryHidden(Resolvable(with.items)) = GalleryHidden(without.items)

C22_Witness ==
    /\ Filtered /\ HasEntry(filteredFor) /\ ~config.settings.hideUnassignedImages
    /\ \E i, j, k \in GalleryIndexes(items) :
          /\ ~InLookup(items[i]) /\ items[i].hidden
          /\ InLookup(items[j]) /\ ~items[j].hidden
          /\ InLookup(items[k]) /\ items[k].hidden

\* The result in hand is the one for the stored value in hand.
Applied ==
    /\ pass > 0
    /\ mappingResult =
          CallNormalizeProductMapping(rawValue, product.options,
                                      product.variants, product.images)
StoredParsed == safeParseJson(rawValue, EmptyParsed)
StoredHasOptionMode ==
    StoredParsed.type = "object" /\ StoredParsed.mode = Str("option")
NormalizedFrom(value) ==
    normalizeProductMapping(RawInput("object", value), product.options,
                            product.variants, product.images)
BareObject(table) == ParsedObject(EmptyStr, EmptyStr, <<>>, table)

\* The current-shape half of C23: with mode "option" the persisted
\* optionName is kept when real, the keys come from the mapping field and
\* the top-level entries change nothing.
CurrentBranchTaken ==
    /\ Canonical = NormalizedFrom([StoredParsed EXCEPT !.top = <<>>])
    /\ Canonical.optionName =
          IF StoredParsed.optionName \in OptionNames(product)
          THEN StoredParsed.optionName
          ELSE FallbackOptionName(product.options)
    /\ DOMAIN Canonical.mapping \subseteq
          IF StoredParsed.mapping # <<>> /\ StoredParsed.mapping[1].type = "object"
          THEN DOMAIN StoredParsed.mapping[1].top ELSE {}

\* C23 as stated: the current-shape branch exactly with mode "option";
\* otherwise the whole parsed object is read as a variant-keyed mapping,
\* its top-level entries being the ones migrated.
C23_LegacyReadsWholeObject ==
    (Applied /\ Normalized) =>
        IF StoredHasOptionMode THEN CurrentBranchTaken
        ELSE /\ Canonical.optionName = FallbackOptionName(product.options)
             /\ Canonical =
                  NormalizedFrom(
                      IF StoredParsed.type = "object"
                      THEN BareObject(StoredParsed.top) ELSE EmptyParsed)

\* C23 amended: otherwise the parsed value goes to the legacy adapter,
\* which parses a string again and reads the object's mapping field when
\* it has one, and the whole object when it has none, as the variant-keyed
\* mapping to migrate.
C23_ShapeSelection ==
    (Applied /\ Normalized) =>
        IF StoredHasOptionMode THEN CurrentBranchTaken
        ELSE LET object == IF StoredParsed.type = "jsonText"
                           THEN [StoredParsed EXCEPT !.type = "object"]
                           ELSE StoredParsed
                 legacy ==
                    IF object.type # "object" THEN EmptyTable
                    ELSE IF object.mapping = <<>> THEN object.top
                    ELSE IF object.mapping[1].type = "object"
                         THEN object.mapping[1].top ELSE EmptyTable
             IN /\ Canonical.optionName = FallbackOptionName(product.options)
                /\ Canonical = NormalizedFrom(BareObject(legacy))

\* Both shapes at once, in each branch: with mode "option" the top-level
\* entry of variant 3 (Red) is left out; with another mode the wrapped
\* entry of variant 1 (Black) is migrated and that of variant 3 left out.
C23_Witness ==
    /\ Applied /\ Normalized /\ pass = 1
    /\ Len(product.options) = 2 /\ Len(product.images) = NumImages
    /\ StoredParsed \in MixedShapeValues
    /\ StoredParsed.mapping # <<>>
    /\ StoredParsed.mode = Str("variant")
    /\ DOMAIN Canonical.mapping = {Str("Black")}

\* A step taken by a trigger that reports the variant `id`: one of the
\* three that call handleVariantChange, or the section-reload listener.
TriggerStep(id) ==
    /\ Listening
    /\ \/ handleVariantChange(id, "listener")
       \/ RunFilter(id, "listener") /\ UNCHANGED lastVariantId

\* C24: every trigger that reports a variant, the section-reloaded signal
\* included, leaves the elements with the visibility computed for that
\* variant and leaves that variant recorded as the last handled one.
C24_TriggersConverge ==
    [][\A id \in EventVariantIds :
          TriggerStep(id) =>
              /\ lastVariantId' = id
              /\ items' = filterGallery(config, items', id).items]_vars

\* C25: after any sequence of trigger events the last handled variant ID
\* is the variant the visibility was most recently computed for, so that a
\* notification is suppressed only when the visibility in place is the one
\* of the reported variant.
C25_LastHandledIsLastFiltered ==
    /\ lastVariantId = filteredFor
    /\ \A id \in EventVariantIds :
          (Listening /\ id = lastVariantId) =>
              filterGallery(config, items, id).items = items

\* C26: with a bootstrap mapping that is not in option mode the entry is
\* looked up by the selected variant's ID; without an entry every element
\* is hidden, and with one the gallery elements follow the same rule as in
\* option mode, no error being raised.
C26_LegacyLookup ==
    (Filtered /\ mappingMode(config) = "variant") =>
        LET table == config.mapping.top IN
        /\ uncaught = {}
        /\ IF filteredFor \notin DOMAIN table
           THEN \A i \in 1..Len(items) : items[i].hidden
           ELSE \A i \in GalleryIndexes(items) :
                   LET id == ResolvedImageId(items[i]) IN
                   ~items[i].hidden <=>
                       /\ Truthy(id)
                       /\ \/ id \in Range(table[filteredFor].ids)
                          \/ /\ ~config.settings.hideUnassignedImages
                             /\ \A k \in DOMAIN table : id \notin Range(table[k].ids)

\* The product's images as the editor names them, and the lists of the
\* option values other than the one being edited.
AllImageIds == {toNumericId(product.images[i]) : i \in 1..Len(product.images)}
OtherValues(m) == DOMAIN m \ {activeOptionValue}
OthersUnchanged ==
    \A key \in OtherValues(mapping') :
        key \in DOMAIN mapping /\ mapping'[key] = mapping[key]

\* C27: in the editor, selecting an image for the option value being edited
\* puts it in that value's list, and Select all puts every product image
\* there; with allowSharedImages = false the image (every product image)
\* is then in no other value's list, with allowSharedImages = true the
\* other lists are as they were.
C27_ExclusiveAssignmentStep ==
    [][/\ ToggleImage =>
            LET added == Range(mapping'[activeOptionValue])
                            \ Range(ImagesOf(mapping, activeOptionValue))
                removed == Range(ImagesOf(mapping, activeOptionValue))
                            \ Range(mapping'[activeOptionValue])
            IN /\ Cardinality(added) + Cardinality(removed) = 1
               /\ IF settings.allowSharedImages THEN OthersUnchanged
                  ELSE \A key \in OtherValues(mapping') :
                          Range(mapping'[key]) \cap added = {}
       /\ SelectAll =>
            /\ Range(mapping'[activeOptionValue]) = AllImageIds
            /\ IF settings.allowSharedImages THEN OthersUnchanged
               ELSE \A key \in OtherValues(mapping') :
                       Range(mapping'[key]) \cap AllImageIds = {}]_vars

\* Image 1, stored under Black, has been selected for Red and has left
\* Black's list.
C27_Witness ==
    /\ Loaded /\ ~settings.allowSharedImages /\ steps = 1
    /\ activeOptionValue = Str("Red")
    /\ Str("Black") \in DOMAIN mapping /\ Str("Red") \in DOMAIN mapping
    /\ mapping[Str("Red")] = <<NumStr(1)>>
    /\ mapping[Str("Black")] = <<>>

\* C28: the engine initializes at most once per page.  init is never
\* waiting or called once the listeners are registered, and an execution
\* of the script that finds the guard flag set schedules nothing, also
\* when the execution that set it returned on missing or unparsable data.
C28_InitializesOnce ==
    /\ [](booted => initialized /\ ~initScheduled)
    /\ [][init => ~booted]_vars
    /\ [][initialized => (initialized' /\ (initScheduled' => initScheduled))]_vars

\* The first execution returned on unreadable data although the payload
\* would have been accepted; the flag is set and nothing was initialized.
C28_Witness ==
    /\ initialized /\ ~initScheduled /\ ~booted
    /\ BootstrapAccepted(config)
    /\ GalleryIndexes(items) # {}

\* The submitted lists restricted to the declared values of an option and
\* to the product's images, as sets of image IDs; keys left with no image
\* are dropped.
SubmittedFiltered(table, optionName) ==
    LET kept(k) == {NumStr(table[k].ids[i].num) : i \in 1..Len(table[k].ids)}
                       \cap CurrentImageIds(product)
    IN [k \in {j \in DOMAIN table \cap DeclaredValues(product, optionName) :
                 kept(j) # {}} |-> kept(k)]

\* C29: the save action answers a missing product ID with 400, an unknown
\* product with 404 and a product without options with 400, and then
\* leaves the stored mapping as it was; in every other case it writes one
\* value whose optionName is a real option of the product and whose mapping
\* is the submitted one restricted to that option's values and the
\* product's images, or the empty one for the intent reset.
C29_ActionPersistsOnlyValid ==
    [][\A intent \in RequestIntents, productId \in RequestProductIds,
          optionName \in RequestOptionNames, rawMapping \in RequestMappings :
          Submit(intent, productId, optionName, rawMapping) =>
              IF ~Truthy(productId)
              THEN fetcherData'.status = 400 /\ UNCHANGED <<rawValue, written>>
              ELSE IF productId # ProductId
              THEN fetcherData'.status = 404 /\ UNCHANGED <<rawValue, written>>
              ELSE IF product.options = <<>>
              THEN fetcherData'.status = 400 /\ UNCHANGED <<rawValue, written>>
              ELSE /\ fetcherData'.status = 200
                   /\ written'.status = "action"
                   /\ rawValue' = Stringify(written'.value[1])
                   /\ written'.value[1].optionName \in OptionNames(product)
                   /\ LET saved == written'.value[1].mapping
                          expected ==
                             IF intent = "reset" THEN <<>>
                             ELSE SubmittedFiltered(rawMapping.top,
                                                    written'.value[1].optionName)
                      IN /\ DOMAIN saved = DOMAIN expected
                         /\ \A k \in DOMAIN saved : Range(saved[k]) = expected[k]]_vars

\* C30: choosing another option axis empties the in-progress mapping;
\* from then on the mapping holds only keys that are values of the option
\* selected, and a save writes under that option nothing but what the
\* in-progress mapping holds.
C30_AxisSwitchEmptiesMapping ==
    /\ [][ChangeAxis =>
            /\ selectedOptionName' # selectedOptionName
            /\ mapping' = <<>> /\ activeOptionValue' = EmptyStr]_vars
    /\ []((Loaded /\ selectedOptionName \in OptionNames(product)) =>
            DOMAIN mapping \subseteq Range(SelectedOptionValues))
    /\ [][(Save /\ fetcherData'.status = 200) =>
            /\ written'.status = "action"
            /\ written'.value[1].optionName = selectedOptionName
            /\ \A k \in DOMAIN written'.value[1].mapping :
                  /\ k \in Range(SelectedOptionValues) /\ k \in DOMAIN mapping
                  /\ Range(written'.value[1].mapping[k]) \subseteq Range(mapping[k])]_vars

\* The product was loaded with a Color mapping; after the switch to Size an
\* image was assigned to a size and saved, and nothing of Color is stored.
C30_Witness ==
    /\ Loaded /\ mappingResult.value[1].optionName = Str("Color")
    /\ mappingResult.value[1].mapping # <<>>
    /\ selectedOptionName = Str("Size")
    /\ written.status = "action"
    /\ written.value[1].optionName = Str("Size")
    /\ DOMAIN written.value[1].mapping # {}
    /\ DOMAIN written.value[1].mapping \subseteq {Str("M"), Str("L")}

====
